---- MODULE Spec2Model ----
(***************************************************************************)
(* A model of the chat relay of src/back.js: the POST /api/together-ai     *)
(* handler, the session lock set, the per-session chat memory, and the two *)
(* pure helpers cleanUserMessage and buildMessagesForTogether.             *)
(*                                                                         *)
(* JavaScript strings are sequences of one-character strings.  The handler *)
(* is an async function on a single-threaded event loop: it runs without   *)
(* interruption between two awaits, so each action below is one such run,  *)
(* from an await (or the arrival of the request) to the next await (or the *)
(* end of the handler, finally block included).                            *)
(***************************************************************************)
EXTENDS Integers, Sequences, FiniteSets, TLC

(***************************************************************************)
(* Bounds of the model.                                                    *)
(***************************************************************************)
\* Requests that may be executing the handler at the same time.
MaxInFlight == 2
\* Deltas one upstream stream may carry before it must end or fail.
MaxChunks == 2
\* Exchanges (committed to the store or still in flight) the run may hold.
MaxExchanges == 2
\* Parts an input of the sanitizer is put together from.
MaxParts == 3
\* Turns of a history handed to the prompt assembler on its own.
MaxHistory == 3

(***************************************************************************)
(* Strings.                                                                *)
(***************************************************************************)
UpperCase == <<"A","B","C","D","E","F","G","H","I","J","K","L","M",
               "N","O","P","Q","R","S","T","U","V","W","X","Y","Z","Ó">>

LowerCase == <<"a","b","c","d","e","f","g","h","i","j","k","l","m",
               "n","o","p","q","r","s","t","u","v","w","x","y","z","ó">>

Digits == {"0","1","2","3","4","5","6","7","8","9"}

Range(f) == {f[i] : i \in DOMAIN f}

\* Canonical case of a character, as the i flag of a regular expression
\* compares characters.
Fold(c) ==
    IF \E i \in DOMAIN UpperCase : UpperCase[i] = c
    THEN LowerCase[CHOOSE i \in DOMAIN UpperCase : UpperCase[i] = c]
    ELSE c

\* The class [\w.-] of the mention pattern: \w is [A-Za-z0-9_].
IsMentionChar(c) ==
    \/ c \in (Range(UpperCase) \cup Range(LowerCase)) \ {"Ó", "ó"}
    \/ c \in Digits
    \/ c \in {"_", ".", "-"}

\* White space as String.prototype.trim sees it.
IsSpace(c) == c \in {" ", "\t", "\n", "\r", "\f"}

\* The alternatives of the role-marker pattern, in the order of the pattern.
RoleMarkers ==
    << <<"U","s","u","a","r","i","o",":">>,
       <<"A","s","i","s","t","e","n","t","e",":">>,
       <<"A","s","s","i","s","t","a","n","t",":">>,
       <<"P","r","e","g","u","n","t","a"," ","d","e","l"," ",
         "U","s","u","a","r","i","o",":">>,
       <<"R","e","s","p","u","e","s","t","a",":">>,
       <<"I","n","t","e","r","a","c","c","i","ó","n",":">> >>

\* Whether marker m matches s at position i, ignoring case.
MatchesAt(s, i, m) ==
    /\ i + Len(m) - 1 <= Len(s)
    /\ \A j \in 1..Len(m) : Fold(s[i + j - 1]) = Fold(m[j])

\* Length of the match of the role-marker pattern at position i (the first
\* alternative that matches), or 0.
MarkerLenAt(s, i) ==
    LET hits == {n \in DOMAIN RoleMarkers : MatchesAt(s, i, RoleMarkers[n])}
    IN  IF hits = {} THEN 0
        ELSE Len(RoleMarkers[CHOOSE n \in hits : \A o \in hits : n <= o])

\* s.replace(/(Usuario:|...)/gi, ""): a left-to-right scan that drops every
\* match and resumes after it.
RECURSIVE StripMarkersFrom(_, _)
StripMarkersFrom(s, i) ==
    IF i > Len(s) THEN <<>>
    ELSE LET n == MarkerLenAt(s, i)
         IN  IF n > 0 THEN StripMarkersFrom(s, i + n)
             ELSE <<s[i]>> \o StripMarkersFrom(s, i + 1)

StripMarkers(s) == StripMarkersFrom(s, 1)

\* Length of the longest run of mention characters starting at position i.
RECURSIVE MentionRun(_, _)
MentionRun(s, i) ==
    IF i <= Len(s) /\ IsMentionChar(s[i]) THEN 1 + MentionRun(s, i + 1) ELSE 0

\* s.replace(/@[\w.-]+/g, "").
RECURSIVE StripMentionsFrom(_, _)
StripMentionsFrom(s, i) ==
    IF i > Len(s) THEN <<>>
    ELSE IF s[i] = "@" /\ MentionRun(s, i + 1) > 0
         THEN StripMentionsFrom(s, i + 1 + MentionRun(s, i + 1))
         ELSE <<s[i]>> \o StripMentionsFrom(s, i + 1)

StripMentions(s) == StripMentionsFrom(s, 1)

RECURSIVE TrimStart(_)
TrimStart(s) ==
    IF s # <<>> /\ IsSpace(Head(s)) THEN TrimStart(Tail(s)) ELSE s

RECURSIVE TrimEnd(_)
TrimEnd(s) ==
    IF s # <<>> /\ IsSpace(s[Len(s)]) THEN TrimEnd(SubSeq(s, 1, Len(s) - 1))
    ELSE s

\* String.prototype.trim.
Trim(s) == TrimEnd(TrimStart(s))

cleanUserMessage(msg) == Trim(StripMentions(StripMarkers(msg)))

(***************************************************************************)
(* Values of the program.                                                  *)
(***************************************************************************)
\* Property names used as session keys.  "constructor" is a name every
\* object literal inherits from Object.prototype, so chatMemory (line 26)
\* has a value for it from the start.
Keys == {"default", "s1", "constructor"}

\* The sessionId field of a request body; "" stands for an absent or empty
\* field.
SessionIds == Keys \cup {""}

\* The message field of a request body: absent, a string, or another JSON
\* value that is truthy (an object, an array, a non-zero number).
MsgUndefined == [type |-> "undefined", text |-> <<>>]
MsgObject == [type |-> "object", text |-> <<>>]
MsgString(s) == [type |-> "string", text |-> s]

MessageTexts ==
    { <<>>,
      <<"h","i">>,
      <<"U","s","u","a","r","i","o",":"," ","h","i"," ","@","b",".","s"," ">> }

Messages == {MsgUndefined, MsgObject} \cup {MsgString(s) : s \in MessageTexts}

Bodies == [message : Messages, sessionId : SessionIds]

\* Message texts the sanitizer empties: a mention, a role marker, a blank.
EmptyingTexts ==
    { <<"@","b">>,
      <<"R","e","s","p","u","e","s","t","a",":">>,
      <<" ">> }

\* The bodies of requests with such a message, or with none, for two
\* sessions.
EmptyingBodies ==
    [message : {MsgUndefined} \cup {MsgString(s) : s \in EmptyingTexts},
     sessionId : {"", "s1"}]

\* cleanUserMessage over the message texts of the model, computed once.
Cleaned == [s \in MessageTexts \cup EmptyingTexts |-> cleanUserMessage(s)]

\* Chunks of the upstream stream: choices is the length of chunk.choices
\* (-1 when the field is absent), delta tells whether choices[0].delta is
\* there, content is delta.content ("" when absent).
ChunkContents == { <<"a">>, <<" ">> }

Chunks ==
    { [choices |-> -1, delta |-> FALSE, content |-> <<>>],
      [choices |-> 0, delta |-> FALSE, content |-> <<>>],
      [choices |-> 1, delta |-> FALSE, content |-> <<>>],
      [choices |-> 1, delta |-> TRUE, content |-> <<>>] }
    \cup {[choices |-> 1, delta |-> TRUE, content |-> c] : c \in ChunkContents}

\* error.message of what the upstream client throws; <<>> when it has none.
UpstreamErrors == { <<>>, <<"upstream failed">> }

\* The fixed texts of the program.
SystemPrompt == <<"Eres ShareUnixIA, ...">>
BusyText == <<"Ya se está procesando una respuesta para esta sesión. Por favor, espere.">>
NoMessageText == <<"No se proporcionó ningún mensaje.">>
InternalErrorText == <<"Error interno del servidor al procesar la solicitud con Together AI.">>
UnknownStreamErrorText == <<"Error desconocido en el stream.">>
\* The messages of the TypeErrors the engine throws.
NotAFunctionText == <<"msg.replace is not a function">>
NotIterableText == <<"history is not iterable">>

Turn(role, content) == [role |-> role, content |-> content]

(***************************************************************************)
(* The response object of one request.                                     *)
(***************************************************************************)
NewResponse ==
    [statusCode |-> 200, headersSent |-> FALSE, contentType |-> "none",
     json |-> <<>>, frames |-> <<>>, ends |-> 0]

\* res.status(code).json({ error: text }): sends the headers and the body
\* and ends the response.
ResStatusJson(res, code, text) ==
    [res EXCEPT !.statusCode = code, !.headersSent = TRUE,
                !.contentType = "application/json", !.json = text,
                !.ends = @ + 1]

\* res.writeHead(200, event-stream headers).
ResWriteHead(res) ==
    [res EXCEPT !.statusCode = 200, !.headersSent = TRUE,
                !.contentType = "text/event-stream"]

ResWrite(res, frame) == [res EXCEPT !.frames = Append(@, frame)]

ResEnd(res) == [res EXCEPT !.ends = @ + 1]

WritableEnded(res) == res.ends > 0

\* The three frames the handler writes.
DataFrame(content) == [kind |-> "data", text |-> content]
DoneFrame == [kind |-> "done", text |-> <<>>]
ErrorFrame(text) == [kind |-> "error", text |-> text]

(***************************************************************************)
(* The pieces of the handler.                                              *)
(***************************************************************************)
\* Mutant: a request without sessionId falls back to a key other than
\* "default".
CurrentSessionIdOther(sessionId) ==
    IF sessionId = "" THEN "s1" ELSE sessionId

\* sessionId || "default"
CurrentSessionId(sessionId) == IF sessionId = "" THEN "default" ELSE sessionId

\* Mutant: the admission check never finds the session locked.
IsLockedNever(locks, k) == FALSE

IsLocked(locks, k) == k \in locks

\* Mutant: admission does not add the key to the lock set.
LockNothing(locks, k) == locks

Lock(locks, k) == locks \cup {k}

\* Mutant: validation tests message === undefined, so "" passes.
MessageMissingUndefinedOnly(message) == message.type = "undefined"

\* Mutant: validation tests the sanitized message.
MessageMissingAfterCleaning(message) ==
    \/ message.type = "undefined"
    \/ message.type = "string" /\ Cleaned[message.text] = <<>>

\* !message
MessageMissing(message) ==
    \/ message.type = "undefined"
    \/ message.type = "string" /\ message.text = <<>>

\* A value of chatMemory: undefined, an array of turns, or the function
\* inherited from the prototype.
Undefined == [kind |-> "undefined", turns |-> <<>>]
ArrayOf(turns) == [kind |-> "array", turns |-> turns]
Inherited == [kind |-> "function", turns |-> <<>>]

\* if (!chatMemory[k]) chatMemory[k] = []
InitSession(mem, k) ==
    IF mem[k].kind = "undefined" THEN [mem EXCEPT ![k] = ArrayOf(<<>>)] ELSE mem

\* Mutant: the new message is pushed before the history.
buildMessagesNewFirst(history, newMessage) ==
    <<Turn("system", SystemPrompt), Turn("user", newMessage)>>
    \o [i \in 1..Len(history) |-> Turn(history[i].role, history[i].content)]

buildMessagesForTogether(history, newMessage) ==
    <<Turn("system", SystemPrompt)>>
    \o [i \in 1..Len(history) |-> Turn(history[i].role, history[i].content)]
    \o <<Turn("user", newMessage)>>

\* Mutant: the relay loop does not test that delta.content is non-empty.
HasContentAnyDelta(chunk) == chunk.choices > 0 /\ chunk.delta

\* The condition of the relay loop: the chunk carries a non-empty delta.
HasContent(chunk) ==
    chunk.choices > 0 /\ chunk.delta /\ chunk.content # <<>>

\* Mutant: the commit pushes the user turn only.
CommitUserOnly(mem, k, cleanedMessage, accumulatedContent) ==
    [mem EXCEPT ![k].turns = @ \o <<Turn("user", cleanedMessage)>>]

\* Mutant: the commit stores the accumulated content without trimming it.
CommitUntrimmed(mem, k, cleanedMessage, accumulatedContent) ==
    [mem EXCEPT ![k].turns =
        @ \o <<Turn("user", cleanedMessage),
               Turn("assistant", accumulatedContent)>>]

\* Mutant: the commit pushes the exchange onto every session's array.
CommitAll(mem, k, cleanedMessage, accumulatedContent) ==
    [j \in DOMAIN mem |->
        IF mem[j].kind = "array"
        THEN ArrayOf(mem[j].turns \o
                     <<Turn("user", cleanedMessage),
                       Turn("assistant", Trim(accumulatedContent))>>)
        ELSE mem[j]]

\* sessionHistory.push(user); sessionHistory.push(assistant)
Commit(mem, k, cleanedMessage, accumulatedContent) ==
    [mem EXCEPT ![k].turns =
        @ \o <<Turn("user", cleanedMessage),
               Turn("assistant", Trim(accumulatedContent))>>]

\* Mutant: after the headers the catch block ends the response without
\* writing the error frame.
CatchSilent(res, errorMessage) ==
    IF ~res.headersSent
    THEN ResStatusJson(res, 500,
             IF errorMessage # <<>> THEN errorMessage ELSE InternalErrorText)
    ELSE ResEnd(res)

\* Mutant: the catch block answers 500 JSON whether or not the headers
\* were sent.
CatchAlwaysJson(res, errorMessage) ==
    ResStatusJson(res, 500,
        IF errorMessage # <<>> THEN errorMessage ELSE InternalErrorText)

\* The catch block.
Catch(res, errorMessage) ==
    IF ~res.headersSent
    THEN ResStatusJson(res, 500,
             IF errorMessage # <<>> THEN errorMessage ELSE InternalErrorText)
    ELSE ResEnd(ResWrite(res,
             ErrorFrame(IF errorMessage # <<>> THEN errorMessage
                        ELSE UnknownStreamErrorText)))

\* Mutant: the finally block leaves the key in the lock set.
UnlockNothing(locks, k) == locks

\* Mutant: the finally block clears the whole lock set.
UnlockAll(locks, k) == {}

\* The finally block: sessionsInProcess.delete(currentSessionId) ...
Unlock(locks, k) == locks \ {k}

\* Mutant: the finally block ends the response without testing writableEnded.
EndAlways(res) == ResEnd(res)

\* ... and if (!res.writableEnded) res.end().
EndIfOpen(res) == IF ~WritableEnded(res) THEN ResEnd(res) ELSE res

\* The run of the handler from the arrival of a request to its first await
\* or, when it gets no further, to its end.  The result tells how far it
\* got (how), and the lock set, chat memory and response it leaves.
Begin(body, locks, mem) ==
    LET k == CurrentSessionId(body.sessionId)
        base == [key |-> k, cleaned |-> <<>>, prompt |-> <<>>]
    IN  IF IsLocked(locks, k)
        THEN base @@ [how |-> "busy", locks |-> locks, mem |-> mem,
                      res |-> ResStatusJson(NewResponse, 429, BusyText)]
        ELSE
        LET held == Lock(locks, k)
        IN  IF MessageMissing(body.message)
            THEN base @@
                 [how |-> "invalid", locks |-> Unlock(held, k), mem |-> mem,
                  res |-> EndIfOpen(ResStatusJson(NewResponse, 400,
                                                  NoMessageText))]
            ELSE IF body.message.type # "string"
            THEN base @@
                 [how |-> "threw", locks |-> Unlock(held, k), mem |-> mem,
                  res |-> EndIfOpen(Catch(NewResponse, NotAFunctionText))]
            ELSE
            LET c == Cleaned[body.message.text]
                mem1 == InitSession(mem, k)
            IN  IF mem1[k].kind # "array"
                THEN base @@
                     [how |-> "threw", locks |-> Unlock(held, k),
                      mem |-> mem1,
                      res |-> EndIfOpen(Catch(NewResponse, NotIterableText))]
                ELSE [key |-> k, cleaned |-> c,
                      prompt |-> buildMessagesForTogether(mem1[k].turns, c),
                      how |-> "await", locks |-> held, mem |-> mem1,
                      res |-> ResWriteHead(NewResponse)]

(***************************************************************************)
(* State.                                                                  *)
(***************************************************************************)
Slots == 1..MaxInFlight

VARIABLES
    sessionsInProcess,  \* the lock set (line 29)
    chatMemory,         \* the session store (line 26), by key
    pc,                 \* where the handler run in each slot is suspended
    sid,                \* its currentSessionId
    cleanedMessage,     \* its cleanedMessage
    prompt,             \* the messages it passed to completions.create
    accumulated,        \* its accumulatedContent
    res,                \* its response object
    finished,           \* the request whose handler run ended in the last
                        \* step, NoRequest when that step ended none
    call                \* a call of one of the two pure helpers on its own:
                        \* its argument and its results so far

vars == <<sessionsInProcess, chatMemory, pc, sid, cleanedMessage, prompt,
          accumulated, res, finished, call>>

\* The state of the server.
server == <<sessionsInProcess, chatMemory, pc, sid, cleanedMessage, prompt,
            accumulated, res, finished>>

\* The turns of a session, <<>> when the store has no array for it.
History(k) == chatMemory[k].turns

InFlight(r) == pc[r] \in {"awaitCreate", "streaming"}

RECURSIVE SumLen(_)
SumLen(ks) ==
    IF ks = {} THEN 0
    ELSE LET k == CHOOSE x \in ks : TRUE
         IN  Len(History(k)) + SumLen(ks \ {k})

\* The exchanges the store holds plus those in flight.
Exchanges == SumLen(Keys) \div 2 + Cardinality({r \in Slots : InFlight(r)})

NoRequest ==
    [how |-> "none", key |-> "", res |-> NewResponse, prompt |-> <<>>]

NoCall == [stage |-> "none", arg |-> <<>>, out |-> <<>>]

\* The server after the module has loaded.
ServerInit ==
    /\ sessionsInProcess = {}
    /\ chatMemory = [k \in Keys |->
                        IF k = "constructor" THEN Inherited ELSE Undefined]
    /\ pc = [r \in Slots |-> "idle"]
    /\ sid = [r \in Slots |-> ""]
    /\ cleanedMessage = [r \in Slots |-> <<>>]
    /\ prompt = [r \in Slots |-> <<>>]
    /\ accumulated = [r \in Slots |-> <<>>]
    /\ res = [r \in Slots |-> NewResponse]
    /\ finished = NoRequest

Init == ServerInit /\ call = NoCall

\* The handler run in slot r is over: its locals are gone and its response
\* is the one finished last.
Retire(r, how, finalRes) ==
    /\ finished' = [how |-> how, key |-> sid[r], res |-> finalRes,
                    prompt |-> prompt[r]]
    /\ pc' = [pc EXCEPT ![r] = "idle"]
    /\ sid' = [sid EXCEPT ![r] = ""]
    /\ cleanedMessage' = [cleanedMessage EXCEPT ![r] = <<>>]
    /\ prompt' = [prompt EXCEPT ![r] = <<>>]
    /\ accumulated' = [accumulated EXCEPT ![r] = <<>>]
    /\ res' = [res EXCEPT ![r] = NewResponse]

(***************************************************************************)
(* Actions.                                                                *)
(***************************************************************************)
\* A request arrives and the handler runs to its first await (the call of
\* completions.create) or, on the 429, 400 and 500 paths, to its end.
Receive(body) ==
    LET b == Begin(body, sessionsInProcess, chatMemory)
    IN  /\ b.how = "await" => Exchanges < MaxExchanges
        /\ sessionsInProcess' = b.locks
        /\ chatMemory' = b.mem
        /\ IF b.how = "await"
           THEN \E r \in Slots :
                   /\ pc[r] = "idle"
                   /\ \A q \in Slots : q < r => pc[q] # "idle"
                   /\ pc' = [pc EXCEPT ![r] = "awaitCreate"]
                   /\ sid' = [sid EXCEPT ![r] = b.key]
                   /\ cleanedMessage' = [cleanedMessage EXCEPT ![r] = b.cleaned]
                   /\ prompt' = [prompt EXCEPT ![r] = b.prompt]
                   /\ res' = [res EXCEPT ![r] = b.res]
                   /\ finished' = NoRequest
                   /\ UNCHANGED accumulated
           ELSE /\ finished' = [how |-> b.how, key |-> b.key, res |-> b.res,
                                prompt |-> <<>>]
                /\ UNCHANGED <<pc, sid, cleanedMessage, prompt, accumulated,
                               res>>
        /\ UNCHANGED call

\* completions.create resolves with a stream: the handler sets up the
\* accumulator and waits for the first chunk.
CreateResolves(r) ==
    /\ pc[r] = "awaitCreate"
    /\ pc' = [pc EXCEPT ![r] = "streaming"]
    /\ accumulated' = [accumulated EXCEPT ![r] = <<>>]
    /\ finished' = NoRequest
    /\ UNCHANGED <<sessionsInProcess, chatMemory, sid, cleanedMessage,
                   prompt, res, call>>

\* completions.create rejects: catch, then finally.
CreateRejects(r, err) ==
    /\ pc[r] = "awaitCreate"
    /\ sessionsInProcess' = Unlock(sessionsInProcess, sid[r])
    /\ Retire(r, "createFailed", EndIfOpen(Catch(res[r], err)))
    /\ UNCHANGED <<chatMemory, call>>

\* The stream yields a chunk: one turn of the relay loop.
ChunkArrives(r, chunk) ==
    /\ pc[r] = "streaming"
    /\ HasContent(chunk) => Len(res[r].frames) < MaxChunks
    /\ IF HasContent(chunk)
       THEN /\ accumulated' =
                  [accumulated EXCEPT ![r] = @ \o chunk.content]
            /\ res' = [res EXCEPT ![r] = ResWrite(@, DataFrame(chunk.content))]
       ELSE UNCHANGED <<accumulated, res>>
    /\ finished' = NoRequest
    /\ UNCHANGED <<sessionsInProcess, chatMemory, pc, sid, cleanedMessage,
                   prompt, call>>

\* The stream ends: the sentinel, the commit, then finally.
StreamEnds(r) ==
    /\ pc[r] = "streaming"
    /\ chatMemory' = Commit(chatMemory, sid[r], cleanedMessage[r],
                            accumulated[r])
    /\ sessionsInProcess' = Unlock(sessionsInProcess, sid[r])
    /\ Retire(r, "completed", EndIfOpen(ResWrite(res[r], DoneFrame)))
    /\ UNCHANGED call

\* The stream throws while the loop waits for a chunk: catch, then finally.
StreamThrows(r, err) ==
    /\ pc[r] = "streaming"
    /\ sessionsInProcess' = Unlock(sessionsInProcess, sid[r])
    /\ Retire(r, "streamFailed", EndIfOpen(Catch(res[r], err)))
    /\ UNCHANGED <<chatMemory, call>>

Next ==
    \/ \E body \in Bodies : Receive(body)
    \/ \E r \in Slots : CreateResolves(r)
    \/ \E r \in Slots, err \in UpstreamErrors : CreateRejects(r, err)
    \/ \E r \in Slots, chunk \in Chunks : ChunkArrives(r, chunk)
    \/ \E r \in Slots : StreamEnds(r)
    \/ \E r \in Slots, err \in UpstreamErrors : StreamThrows(r, err)

Spec == Init /\ [][Next]_vars

\* The upstream call settles: completions.create returns or fails, and a
\* stream that was opened ends or fails.
Settle(r) ==
    \/ CreateResolves(r)
    \/ \E err \in UpstreamErrors : CreateRejects(r, err)
    \/ StreamEnds(r)
    \/ \E err \in UpstreamErrors : StreamThrows(r, err)

\* The behaviours in which every upstream call settles.
FairSpec == Spec /\ \A r \in Slots : WF_vars(Settle(r))

\* The server under requests whose message the sanitizer empties.
EmptyNext ==
    \/ \E body \in EmptyingBodies : Receive(body)
    \/ \E r \in Slots : CreateResolves(r)
    \/ \E r \in Slots, err \in UpstreamErrors : CreateRejects(r, err)
    \/ \E r \in Slots, chunk \in Chunks : ChunkArrives(r, chunk)
    \/ \E r \in Slots : StreamEnds(r)
    \/ \E r \in Slots, err \in UpstreamErrors : StreamThrows(r, err)

EmptySpec == Init /\ [][EmptyNext]_vars

(***************************************************************************)
(* The sanitizer on its own: cleanUserMessage applied to an input, then to *)
(* its own result.                                                         *)
(***************************************************************************)
SanParts ==
    { <<"U","s","u">>,
      <<"a","r","i","o",":">>,
      <<"U","s","u","a","r","i","o",":">>,
      <<"R","e","s","p","u","e","s","t","a">>,
      <<":">>,
      <<"@","b">>,
      <<" ">>,
      <<"x">> }

\* The strings made of at most n parts.
RECURSIVE PartStrings(_)
PartStrings(n) ==
    IF n = 0 THEN {<<>>}
    ELSE LET shorter == PartStrings(n - 1)
         IN  shorter \cup {s \o p : s \in shorter, p \in SanParts}

SanInputs == PartStrings(MaxParts)

SanInit ==
    /\ ServerInit
    /\ \E s \in SanInputs : call = [stage |-> "input", arg |-> s, out |-> <<>>]

Sanitize ==
    /\ call.stage = "input"
    /\ call' = [call EXCEPT !.stage = "once",
                            !.out = <<cleanUserMessage(call.arg)>>]
    /\ UNCHANGED server

SanitizeAgain ==
    /\ call.stage = "once"
    /\ call' = [call EXCEPT !.stage = "twice",
                            !.out = Append(@, cleanUserMessage(call.out[1]))]
    /\ UNCHANGED server

SanNext == Sanitize \/ SanitizeAgain

SanSpec == SanInit /\ [][SanNext]_vars

(***************************************************************************)
(* The prompt assembler on its own.                                        *)
(***************************************************************************)
TurnValues ==
    {Turn(role, content) : role \in {"user", "assistant"},
                           content \in {<<>>, <<"h","i">>}}

\* The sequences of at most n turns.
RECURSIVE TurnSeqs(_)
TurnSeqs(n) ==
    IF n = 0 THEN {<<>>}
    ELSE LET shorter == TurnSeqs(n - 1)
         IN  shorter \cup {Append(h, t) : h \in shorter, t \in TurnValues}

BuildInputs ==
    [history : TurnSeqs(MaxHistory),
     message : {<<>>, <<"h","i">>, <<"U","s","u","a","r","i","o",":">>}]

BuildInit ==
    /\ ServerInit
    /\ \E a \in BuildInputs : call = [stage |-> "input", arg |-> a, out |-> <<>>]

\* The function reads its arguments and writes only its own array.
Build ==
    /\ call.stage = "input"
    /\ call' = [call EXCEPT
                  !.stage = "built",
                  !.out = <<buildMessagesForTogether(call.arg.history,
                                                     call.arg.message)>>]
    /\ UNCHANGED server

BuildNext == Build

BuildSpec == BuildInit /\ [][BuildNext]_vars

(***************************************************************************)
(* Properties.                                                             *)
(***************************************************************************)
\* The slots whose handler run holds key k: past admission, teardown not run.
Holders(k) == {r \in Slots : InFlight(r) /\ sid[r] = k}

\* The slot whose handler run ends in this step.
Retires(r) == InFlight(r) /\ pc'[r] = "idle"

\* The turns of session k after the step.
HistoryAfter(k) == chatMemory'[k].turns

\* The history a prompt was assembled from.
PromptHistory(p) == SubSeq(p, 2, Len(p) - 1)

\* The texts of the data frames of a response, in order.
RECURSIVE DataTexts(_)
DataTexts(frames) ==
    IF frames = <<>> THEN <<>>
    ELSE (IF Head(frames).kind = "data" THEN <<Head(frames).text>> ELSE <<>>)
         \o DataTexts(Tail(frames))

RECURSIVE Concat(_)
Concat(texts) ==
    IF texts = <<>> THEN <<>> ELSE Head(texts) \o Concat(Tail(texts))

IsJsonReply(r, code, text) ==
    /\ r.statusCode = code
    /\ r.contentType = "application/json"
    /\ r.json = text
    /\ r.frames = <<>>
    /\ r.ends = 1

\* C1: in every reachable state a session key is in the lock set exactly
\* when one handler run for that key is past admission and has not run its
\* teardown, and no key is ever held by two handler runs.
C1_LockHeldByExactlyOne ==
    \A k \in Keys :
        /\ Cardinality(Holders(k)) <= 1
        /\ k \in sessionsInProcess <=> Cardinality(Holders(k)) = 1

\* Two requests for different sessions are suspended at the same time, one
\* on the completion call and one on a chunk, each holding its key.
C1_Witness ==
    \E r, q \in Slots :
        /\ pc[r] = "awaitCreate" /\ pc[q] = "streaming"
        /\ sid[r] # sid[q]
        /\ {sid[r], sid[q]} \subseteq sessionsInProcess

\* C2: a request arriving while its session key is in the lock set gets a
\* 429 JSON error, and that step changes neither the lock set, nor any
\* history, nor any in-flight request (its stream included): the key stays
\* held by the request in flight.
C2_BusyRejectionChangesNothing ==
    [][\A body \in Bodies :
          LET k == IF body.sessionId = "" THEN "default" ELSE body.sessionId
          IN  (k \in sessionsInProcess /\ Receive(body)) =>
                 /\ IsJsonReply(finished'.res, 429, BusyText)
                 /\ finished'.key = k
                 /\ k \in sessionsInProcess'
                 /\ UNCHANGED <<sessionsInProcess, chatMemory, pc, sid,
                                cleanedMessage, prompt, accumulated, res>>]_vars

\* A request was just rejected with 429 while the request holding its key
\* is streaming and has already written a frame.
C2_Witness ==
    /\ finished.how = "busy"
    /\ finished.res.statusCode = 429
    /\ \E r \in Slots :
          /\ pc[r] = "streaming" /\ sid[r] = finished.key
          /\ res[r].frames # <<>>

\* C3: whichever way an admitted request ends (400, failure before the
\* headers, failure after them, normal end) its key is out of the lock set
\* when its handler has finished, and when every upstream call settles a
\* held key is eventually released.
C3_LockAlwaysReleased ==
    /\ [](finished.how \in {"invalid", "threw", "createFailed",
                            "streamFailed", "completed"}
            => finished.key \notin sessionsInProcess)
    /\ \A k \in Keys :
          (k \in sessionsInProcess) ~> (k \notin sessionsInProcess)

\* A request is admitted for a session whose earlier request ran to its end
\* and committed.
C3_Witness ==
    \E r \in Slots :
        /\ InFlight(r)
        /\ sid[r] \in sessionsInProcess
        /\ History(sid[r]) # <<>>

\* C4: a request without message (absent or empty) on a session that is not
\* locked gets a 400 JSON error and no event-stream header, starts no
\* upstream call, leaves the chat memory as it was and the session unlocked.
C4_MissingMessage ==
    [][\A body \in Bodies :
          LET k == IF body.sessionId = "" THEN "default" ELSE body.sessionId
          IN  ( /\ body.message \in {MsgUndefined, MsgString(<<>>)}
                /\ k \notin sessionsInProcess
                /\ Receive(body) ) =>
                 /\ IsJsonReply(finished'.res, 400, NoMessageText)
                 /\ finished'.key = k
                 /\ finished'.prompt = <<>>
                 /\ k \notin sessionsInProcess'
                 /\ UNCHANGED <<sessionsInProcess, chatMemory, pc, prompt>>]_vars

\* A 400 was just sent for a session that has a history and is unlocked.
C4_Witness ==
    /\ finished.how = "invalid"
    /\ finished.res.statusCode = 400
    /\ finished.key \notin sessionsInProcess
    /\ History(finished.key) # <<>>

\* C5: when the completion call itself fails, before any chunk was received
\* or forwarded, the caller gets one JSON error object with status 500 and
\* no SSE frame on a 200 event-stream response.
C5_CreateFailureIsJson500 ==
    finished.how = "createFailed" =>
        /\ finished.res.statusCode = 500
        /\ finished.res.contentType = "application/json"
        /\ finished.res.frames = <<>>

\* What the error frame carries for an error with message err.
ErrorDescription(err) == IF err # <<>> THEN err ELSE UnknownStreamErrorText

AllData(frames) == \A i \in 1..Len(frames) : frames[i].kind = "data"

\* C6: when the stream fails after a delta was forwarded, the response is
\* the data frames already forwarded, then exactly one error frame with the
\* error description, then the end of the connection; it holds no [DONE]
\* frame, and the lock is released.
C6_MidStreamFailure ==
    [][\A r \in Slots, err \in UpstreamErrors :
          (StreamThrows(r, err) /\ res[r].frames # <<>>) =>
             /\ AllData(res[r].frames)
             /\ finished'.res.frames =
                   Append(res[r].frames, ErrorFrame(ErrorDescription(err)))
             /\ finished'.res.ends = 1
             /\ finished'.res.statusCode = 200
             /\ finished'.res.contentType = "text/event-stream"
             /\ finished'.key = sid[r]
             /\ sid[r] \notin sessionsInProcess']_vars

\* A stream just failed after two deltas: two data frames, the error frame,
\* the connection ended, the key released.
C6_Witness ==
    /\ finished.how = "streamFailed"
    /\ Len(finished.res.frames) = 3
    /\ finished.res.frames[3].kind = "error"
    /\ finished.res.ends = 1
    /\ finished.key \notin sessionsInProcess

\* C7: a request that fails, before or after the first delta, leaves its
\* session's history as it was when the request arrived (the history its
\* prompt was assembled from); a history changes only in the step that ends
\* a stream normally.
C7_FailureCommitsNothing ==
    [][ /\ \A k \in Keys :
              HistoryAfter(k) # History(k) =>
                  finished'.how = "completed" /\ finished'.key = k
        /\ \A r \in Slots :
              (Retires(r) /\ finished'.how \in {"createFailed", "streamFailed"})
                 => HistoryAfter(sid[r]) = PromptHistory(prompt[r]) ]_vars

\* A stream just failed after a delta, on a session that has a history: the
\* history is the one the prompt carried.
C7_Witness ==
    /\ finished.how = "streamFailed"
    /\ DataTexts(finished.res.frames) # <<>>
    /\ History(finished.key) # <<>>
    /\ History(finished.key) = PromptHistory(finished.prompt)

\* A history of user/assistant pairs.
Alternates(h) ==
    /\ Len(h) % 2 = 0
    /\ \A i \in 1..Len(h) :
          h[i].role = IF i % 2 = 1 THEN "user" ELSE "assistant"

\* C8: in every reachable state every session's history has even length and
\* alternates user, assistant, user, assistant, ...
C8_HistoryInPairs == \A k \in Keys : Alternates(History(k))

\* A session holds two exchanges, the second one just committed.
C8_Witness ==
    /\ finished.how = "completed"
    /\ Len(History(finished.key)) = 4

\* C9: each chunk with a non-empty delta adds one data frame with that
\* delta at the end of the response, any other chunk adds nothing, and a
\* normal end of the stream adds the [DONE] frame, once, after which the
\* response is ended: the frames are the non-empty deltas in receipt order,
\* then [DONE].
C9_FramesAreDeltasThenDone ==
    [][ /\ \A r \in Slots, chunk \in Chunks :
              ChunkArrives(r, chunk) =>
                 res'[r].frames =
                    IF chunk.choices >= 1 /\ chunk.delta
                       /\ chunk.content # <<>>
                    THEN res[r].frames \o <<DataFrame(chunk.content)>>
                    ELSE res[r].frames
        /\ \A r \in Slots :
              StreamEnds(r) =>
                 /\ AllData(res[r].frames)
                 /\ finished'.res.frames = res[r].frames \o <<DoneFrame>>
                 /\ finished'.res.ends = 1
                 /\ finished'.res.statusCode = 200 ]_vars

\* A stream just ended normally after the deltas " " and "a", in that order.
C9_Witness ==
    /\ finished.how = "completed"
    /\ finished.res.frames = <<DataFrame(<<" ">>), DataFrame(<<"a">>), DoneFrame>>

\* The step of C10 with the assistant content given by content(_): the
\* message is sanitized at dispatch, the commit happens in the step that
\* ends the stream (the one that writes [DONE]) and in no other, and it
\* appends the user turn and the assistant turn to that session only.
CommitStep(content(_)) ==
    /\ \A body \in Bodies :
          (pc' # pc /\ Receive(body)) =>
             \E r \in Slots :
                /\ pc[r] = "idle" /\ pc'[r] = "awaitCreate"
                /\ cleanedMessage'[r] = cleanUserMessage(body.message.text)
    /\ \A k \in Keys :
          HistoryAfter(k) # History(k) => \E r \in Slots : StreamEnds(r) /\ sid[r] = k
    /\ \A r \in Slots :
          StreamEnds(r) =>
             /\ HistoryAfter(sid[r]) =
                   History(sid[r]) \o
                   << Turn("user", cleanedMessage[r]),
                      Turn("assistant", content(DataTexts(res[r].frames))) >>
             /\ finished'.res.frames[Len(finished'.res.frames)] = DoneFrame

\* C10 as stated: the assistant turn is the concatenation of the deltas
\* forwarded on the request.
C10_AssistantIsConcatenation == [][CommitStep(Concat)]_vars

TrimmedConcat(texts) == Trim(Concat(texts))

\* C10 as amended: a request whose stream ends normally commits once, in the
\* step that emits [DONE], two turns: the user turn with the sanitized
\* message and the assistant turn with the concatenation of the forwarded
\* deltas with leading and trailing white space removed.
C10_AssistantIsTrimmedConcatenation == [][CommitStep(TrimmedConcat)]_vars

\* A request just committed whose deltas were " " and "a": the assistant
\* turn is "a", the user turn the sanitized message "hi".
C10_Witness ==
    /\ finished.how = "completed"
    /\ DataTexts(finished.res.frames) = << <<" ">>, <<"a">> >>
    /\ LET h == History(finished.key)
       IN  /\ Len(h) >= 2
           /\ h[Len(h)] = Turn("assistant", <<"a">>)
           /\ h[Len(h) - 1] = Turn("user", <<"h", "i">>)

\* A step of the handler run in slot r.
StepOf(r) == Settle(r) \/ \E chunk \in Chunks : ChunkArrives(r, chunk)

\* The step leaves session b's entry in the store and its membership in
\* the lock set as they were.
Untouched(b) ==
    /\ chatMemory'[b] = chatMemory[b]
    /\ b \in sessionsInProcess' <=> b \in sessionsInProcess

\* C11: no step of a request for session A (its arrival, or a step of its
\* handler run) changes the history or the lock of another session B, and a
\* request with a message for an unlocked session B is admitted whatever
\* other sessions are in flight.
C11_SessionsDoNotInterfere ==
    [][ /\ \A body \in Bodies :
              LET a == IF body.sessionId = "" THEN "default"
                       ELSE body.sessionId
              IN  /\ ( /\ \E b \in Keys \ {a} : ~Untouched(b)
                       /\ Receive(body) ) => FALSE
                  /\ ( /\ a \in {"default", "s1"}
                       /\ a \notin sessionsInProcess
                       /\ body.message.type = "string"
                       /\ body.message.text # <<>>
                       /\ Receive(body) ) =>
                          \E r \in Slots :
                             /\ pc[r] = "idle" /\ pc'[r] = "awaitCreate"
                             /\ sid'[r] = a
                             /\ a \in sessionsInProcess'
        /\ \A r \in Slots :
              StepOf(r) => \A b \in Keys \ {sid[r]} : Untouched(b) ]_vars

\* Requests for two sessions stream at the same time, each with a frame
\* written.
C11_Witness ==
    \E r, q \in Slots :
        /\ pc[r] = "streaming" /\ pc[q] = "streaming"
        /\ sid[r] # sid[q]
        /\ res[r].frames # <<>> /\ res[q].frames # <<>>

\* C12: sanitizing is idempotent: cleanUserMessage of a sanitized string is
\* that string.
C12_SanitizeIdempotent ==
    call.stage = "twice" => call.out[2] = call.out[1]

\* The ways an admitted request ends.
AdmittedEndings ==
    {"invalid", "threw", "createFailed", "streamFailed", "completed"}

\* C13: on every path of an admitted request the response is ended exactly
\* once (the finally block does not end a response the catch block or a JSON
\* reply has ended, and ends one still open) and the key is out of the lock
\* set; a response is not ended while its handler run is suspended.
C13_EndedExactlyOnce ==
    /\ finished.how \in AdmittedEndings =>
          /\ finished.res.ends = 1
          /\ finished.key \notin sessionsInProcess
    /\ \A r \in Slots : InFlight(r) => res[r].ends = 0

\* The completion call just failed: the catch block ended the response and
\* the finally block did not end it again.
C13_Witness ==
    /\ finished.how = "createFailed"
    /\ finished.res.frames # <<>>
    /\ finished.res.ends = 1

JsonReply(r) ==
    /\ r.contentType = "application/json"
    /\ r.statusCode \in {429, 400, 500}
    /\ r.json # <<>>
    /\ r.frames = <<>>

EventStream(r) ==
    /\ r.contentType = "text/event-stream"
    /\ r.statusCode = 200
    /\ r.headersSent
    /\ r.json = <<>>

\* C14: every response is a 429, 400 or 500 JSON reply or a 200
\* event-stream, never both; a request that has written the event-stream
\* headers (every suspended one has) ends as a 200 event-stream without JSON
\* payload, and a JSON reply comes only from a run that wrote no header
\* before it.
C14_EventStreamIsOneWay ==
    /\ [](/\ finished.how # "none" =>
                (JsonReply(finished.res) /\ ~EventStream(finished.res))
                \/ (EventStream(finished.res) /\ ~JsonReply(finished.res))
          /\ finished.how \in {"busy", "invalid", "threw"}
                <=> JsonReply(finished.res)
          /\ \A r \in Slots : InFlight(r) => EventStream(res[r]))
    /\ [][\A r \in Slots :
             (EventStream(res[r]) /\ Retires(r)) => EventStream(finished'.res)
         ]_vars

\* A stream failed before any delta: the response stays a 200 event-stream
\* and carries the error as a frame.
C14_Witness ==
    /\ finished.how = "streamFailed"
    /\ EventStream(finished.res)
    /\ Len(finished.res.frames) = 1

\* C15: buildMessagesForTogether(h, m) has Len(h) + 2 elements: a system
\* message, the turns of h with their role and content in their order, and
\* {role: "user", content: m}; the call leaves h as it was.
C15_PromptShape ==
    /\ [](call.stage = "built" =>
            LET h == call.arg.history
                m == call.arg.message
                out == call.out[1]
            IN  /\ Len(out) = Len(h) + 2
                /\ out[1].role = "system"
                /\ \A i \in 1..Len(h) :
                      /\ out[i + 1].role = h[i].role
                      /\ out[i + 1].content = h[i].content
                /\ out[Len(h) + 2] = Turn("user", m))
    /\ [][call'.arg = call.arg]_vars

\* The prompt of a three-turn history that starts with an assistant turn
\* and of a message that holds a role marker.
C15_Witness ==
    /\ call.stage = "built"
    /\ Len(call.arg.history) = 3
    /\ call.arg.history[1].role = "assistant"
    /\ call.arg.history[2] # call.arg.history[3]
    /\ call.arg.message = <<"U","s","u","a","r","i","o",":">>
    /\ Len(call.out[1]) = 5

\* C16: a request without sessionId is served under the key "default", as
\* one that names "default" is: it is rejected with 429 while that key is
\* held, and otherwise (with a message) it takes the lock of "default" and
\* its prompt holds the turns committed to "default" so far.
C16_AbsentIdIsDefault ==
    [][\A body \in Bodies :
          body.sessionId = "" =>
             /\ ("default" \in sessionsInProcess /\ Receive(body)) =>
                   /\ IsJsonReply(finished'.res, 429, BusyText)
                   /\ finished'.key = "default"
             /\ ( /\ "default" \notin sessionsInProcess
                  /\ body.message.type = "string"
                  /\ body.message.text # <<>>
                  /\ Receive(body) ) =>
                     /\ "default" \in sessionsInProcess'
                     /\ \E r \in Slots :
                           /\ pc[r] = "idle" /\ pc'[r] = "awaitCreate"
                           /\ sid'[r] = "default"
                           /\ PromptHistory(prompt'[r]) = History("default")
             /\ Receive(body) =>
                   Receive([body EXCEPT !.sessionId = "default"])
      ]_vars

\* A request was just rejected with 429 under the key "default" while
\* another one is in flight under it, with a prompt that holds an exchange
\* committed earlier.
C16_Witness ==
    /\ finished.how = "busy"
    /\ finished.key = "default"
    /\ \E r \in Slots :
          /\ InFlight(r) /\ sid[r] = "default"
          /\ Len(PromptHistory(prompt[r])) = 2
          /\ PromptHistory(prompt[r]) = History("default")

\* The upstream call of slot r fails, or its stream ends or fails.
UpstreamEnds(r) ==
    \/ \E err \in UpstreamErrors : CreateRejects(r, err)
    \/ StreamEnds(r)
    \/ \E err \in UpstreamErrors : StreamThrows(r, err)

\* C17: there is no timeout: a request in flight leaves that state only by
\* a step in which its upstream call fails or its stream ends or fails.
\* Through every other step it stays in flight with its key in the lock set
\* and its response open, so while the upstream hangs every request for its
\* session gets 429 and the lock set is not changed by it, and a request
\* with a message for another, unlocked session is admitted.
C17_HungUpstreamHoldsLock ==
    [][\A r \in Slots :
          InFlight(r) =>
             /\ \/ UpstreamEnds(r)
                \/ /\ InFlight(r)'
                   /\ sid'[r] = sid[r]
                   /\ sid[r] \in sessionsInProcess'
                   /\ res'[r].ends = 0
             /\ \A body \in Bodies :
                   LET a == IF body.sessionId = "" THEN "default"
                            ELSE body.sessionId
                   IN  /\ (a = sid[r] /\ Receive(body)) =>
                             /\ IsJsonReply(finished'.res, 429, BusyText)
                             /\ InFlight(r)'
                             /\ sessionsInProcess' = sessionsInProcess
                       /\ ( /\ a \in {"default", "s1"} \ sessionsInProcess
                            /\ body.message.type = "string"
                            /\ body.message.text # <<>>
                            /\ Receive(body) ) =>
                               \E q \in Slots \ {r} :
                                  /\ pc'[q] = "awaitCreate" /\ sid'[q] = a
                                  /\ InFlight(r)'
      ]_vars

\* A stream has yielded nothing so far; a request for another session was
\* admitted after it, and one for its own session was just rejected.
C17_Witness ==
    /\ finished.how = "busy"
    /\ \E r, q \in Slots :
          /\ pc[r] = "streaming" /\ sid[r] = finished.key
          /\ res[r].frames = <<>> /\ res[r].ends = 0
          /\ sid[r] \in sessionsInProcess
          /\ r < q /\ pc[q] = "awaitCreate" /\ sid[q] # sid[r]

\* C18: while a request is in flight the history of its session is the one
\* its prompt was assembled from, and when it has completed the history is
\* that one followed by the user turn of the prompt and one assistant turn.
C18_CommitsToPromptHistory ==
    /\ \A r \in Slots :
          InFlight(r) => History(sid[r]) = PromptHistory(prompt[r])
    /\ finished.how = "completed" =>
          LET h == History(finished.key)
              p == finished.prompt
          IN  /\ Len(h) = Len(p)
              /\ SubSeq(h, 1, Len(h) - 1) = Tail(p)
              /\ h[Len(h) - 1].role = "user"
              /\ h[Len(h)].role = "assistant"

\* A request has just committed the first exchange of its session while a
\* request for another session is streaming.
C18_Witness ==
    /\ finished.how = "completed"
    /\ Len(finished.prompt) = 2
    /\ Len(History(finished.key)) = 2
    /\ \E q \in Slots :
          /\ pc[q] = "streaming" /\ sid[q] # finished.key
          /\ res[q].frames # <<>>

\* C19: validation tests the raw message: a request for an unlocked session
\* whose message is a non-empty string that sanitizes to "" gets no 400; it
\* is dispatched with a prompt that ends in a user message with empty
\* content, and when its stream ends the exchange is committed with a user
\* turn of empty content.
C19_EmptiedMessageIsDispatched ==
    /\ [][\A body \in EmptyingBodies :
             LET a == IF body.sessionId = "" THEN "default"
                      ELSE body.sessionId
             IN  ( /\ a \notin sessionsInProcess
                   /\ body.message.type = "string"
                   /\ body.message.text # <<>>
                   /\ cleanUserMessage(body.message.text) = <<>>
                   /\ Receive(body) ) =>
                      /\ finished' = NoRequest
                      /\ \E r \in Slots :
                            /\ pc[r] = "idle" /\ pc'[r] = "awaitCreate"
                            /\ sid'[r] = a
                            /\ cleanedMessage'[r] = <<>>
                            /\ res'[r].statusCode = 200
                            /\ prompt'[r][Len(prompt'[r])] = Turn("user", <<>>)
         ]_vars
    /\ [][\A r \in Slots :
             (cleanedMessage[r] = <<>> /\ StreamEnds(r)) =>
                 /\ Len(HistoryAfter(sid[r])) = Len(History(sid[r])) + 2
                 /\ HistoryAfter(sid[r])[Len(History(sid[r])) + 1]
                       = Turn("user", <<>>)
         ]_vars

\* An exchange was just committed with an empty user turn and a non-empty
\* assistant turn.
C19_Witness ==
    /\ finished.how = "completed"
    /\ Len(History(finished.key)) = 2
    /\ History(finished.key)[1] = Turn("user", <<>>)
    /\ History(finished.key)[2].content # <<>>

====
